---- MODULE Spec2Model ----
(***************************************************************************)
(* Model of audio_recorder.py: the timestamp formatter dt_to_str, the      *)
(* producer callback audio_callback, and the consumer loop of main() that  *)
(* rolls over chunk files.                                                  *)
(*                                                                          *)
(* Time is counted in clock ticks; one second is TicksPerSecond ticks, so  *)
(* the float arguments --duration and --total-duration are whole numbers of *)
(* ticks.  Frame buffers are numbered 1, 2, ... in the order audio_callback *)
(* enqueues them.  The Audio Source calls back at most once per tick; a     *)
(* tick without a callback clears the flag continuous.                      *)
(*                                                                          *)
(* The main thread is followed statement by statement through the try block *)
(* of lines 64-96 (variable pc).  Exceptions are those the libraries raise  *)
(* when the stream is opened, when a chunk file is opened and when a buffer *)
(* is written, and one KeyboardInterrupt; closing a file or the stream is   *)
(* taken to succeed.                                                        *)
(*                                                                          *)
(* Spec is the recorder with a clock that is never adjusted; SpecClock adds *)
(* one step of the system clock; SpecLive is the run without error or       *)
(* cancellation under fairness; SpecFmt applies dt_to_str to chosen inputs. *)
(***************************************************************************)
EXTENDS Integers, Sequences, FiniteSets, TLC

\* ------------------------------------------------------------------ bounds
MaxTime == 4
TicksPerSecond == 2

\* -d values (ticks) and -t values (ticks; NoTotal is an absent -t)
NoTotal == [given |-> FALSE, value |-> 0]
Total(v) == [given |-> TRUE, value |-> v]
DurationSet == {0, 2}
TotalSet == {NoTotal, Total(0), Total(1), Total(3)}

VARIABLES
  args,             \* parsed command line: duration, total_duration, use_utc
  now,              \* the clock read by time.time() and datetime.now()
  streamOpen,       \* sd.InputStream is open: audio_callback is registered
  delivered,        \* the Audio Source has called back in the current tick
  continuous,       \* no tick has passed without a callback since the stream opened
  pushed,           \* number of frame buffers enqueued so far
  q,                \* the global queue.Queue
  pc,               \* position of the main thread
  start_time, elapsed_time, chunk_start_time,
  filename,         \* path computed for the chunk about to be opened
  item,             \* buffer returned by q.get() and not yet written
  file,             \* path of the open sf.SoundFile, or NoFile
  fs,               \* output directory: path -> [pre, data]
  chunks,           \* paths of the chunk files created by this run, in order
  exc,              \* exception propagating in the main thread
  cause,            \* what ended the run
  signal,           \* NoSignal, or what held when KeyboardInterrupt was raised
  handles,          \* paths of the sf.SoundFile objects that are open
  report,           \* messages printed by lines 77, 93 and 95
  exitStatus,       \* process exit status once pc = "done"
  stderr,           \* what audio_callback has printed to sys.stderr (34)
  skew,             \* adjustments made to the system clock: time.time() is now + skew
  mono_start,       \* elapsed real time (now) when line 71 read the clock
  mono_chunk_start, \* elapsed real time (now) when line 86 read the clock
  first_test,       \* outcome of the first test of line 87 for the open chunk
  late_writes,      \* buffers written to the open chunk at or after its deadline
  fmt_dt, fmt_out   \* input and output of a stand-alone dt_to_str call

vars == <<args, now, streamOpen, delivered, continuous, pushed, q, pc,
          start_time, elapsed_time, chunk_start_time, filename, item, file,
          fs, chunks, exc, cause, signal, handles, report, exitStatus,
          stderr, skew, mono_start, mono_chunk_start, first_test,
          late_writes, fmt_dt, fmt_out>>

NoFile == <<>>
NoItem == <<>>
Running == <<>>
NoSignal == [raised |-> FALSE, pushed |-> 0, mid_chunk |-> FALSE]

\* ------------------------------------------------------- dt_to_str (11-19)
Digits == <<"0", "1", "2", "3", "4", "5", "6", "7", "8", "9">>
Digit(n) == Digits[n + 1]

\* "{:0Wd}".format(n): at least w digits, zero-padded on the left
RECURSIVE ZeroPad(_, _)
ZeroPad(n, w) ==
  IF w <= 1 /\ n < 10 THEN <<Digit(n)>>
  ELSE Append(ZeroPad(n \div 10, w - 1), Digit(n % 10))

\* tzinfo values: None, timezone.utc, and fixed-offset zones that are not UTC
TzNone == [aware |-> FALSE, utc |-> FALSE, offset |-> 0]
TzUTC == [aware |-> TRUE, utc |-> TRUE, offset |-> 0]
TzFixed(off) == [aware |-> TRUE, utc |-> FALSE, offset |-> off]

\* dt.strftime("%Y-%m-%dT%H_%M_%S")
strftime(dt) ==
  ZeroPad(dt.year, 4) \o <<"-">> \o ZeroPad(dt.month, 2) \o <<"-">> \o
  ZeroPad(dt.day, 2) \o <<"T">> \o ZeroPad(dt.hour, 2) \o <<"_">> \o
  ZeroPad(dt.minute, 2) \o <<"_">> \o ZeroPad(dt.second, 2)

HasFraction(dt) == dt.microsecond # 0

\* variant: the test 'dt.tzinfo is not None' is missing
TakesZ_OffsetOnly(dt) == dt.tzinfo.offset = 0

\* dt.tzinfo is not None and dt.utcoffset().total_seconds() == 0 (17)
TakesZ(dt) == dt.tzinfo.aware /\ dt.tzinfo.offset = 0

dt_to_str(dt) ==
  strftime(dt)
    \o (IF HasFraction(dt) THEN <<".">> \o ZeroPad(dt.microsecond, 6) ELSE <<>>)
    \o (IF TakesZ(dt) THEN <<"Z">> ELSE <<>>)

\* ---------------------------------------- get_timestamped_filename (22-29)
\* datetime.now(tz) at clock reading t; the session starts on 2024-01-01 at
\* 00:00:00 and the local zone is at offset zero from UTC.
DateTimeNow(t, tz) ==
  LET s == t \div TicksPerSecond
  IN [year |-> 2024, month |-> 1, day |-> 1 + (s \div 86400),
      hour |-> (s \div 3600) % 24, minute |-> (s \div 60) % 60,
      second |-> s % 60,
      microsecond |-> ((t % TicksPerSecond) * 1000000) \div TicksPerSecond,
      tzinfo |-> tz]

get_timestamped_filename(t, use_utc) ==
  LET nowdt == IF use_utc THEN DateTimeNow(t, TzUTC) ELSE DateTimeNow(t, TzNone)
  IN <<"audio_recording", "_">> \o dt_to_str(nowdt) \o <<".wav">>

\* ----------------------------------------------------------- file helpers
PreData == <<0>>

\* variant: mode 'w' instead of 'x', an existing path is not an obstacle
Exists_ModeW(path) == FALSE

\* the path names a file of the output directory
Exists(path) == path \in DOMAIN fs

\* sf.SoundFile(filename, mode='x'): the new, empty file
Created(path) ==
  [p \in DOMAIN fs \cup {path} |->
     IF p = path THEN [pre |-> FALSE, data |-> <<>>] ELSE fs[p]]

\* file.write(buf): append one whole buffer
Appended(path, buf) ==
  [fs EXCEPT ![path] = [@ EXCEPT !.data = Append(@, buf)]]

RECURSIVE ConcatChunks(_)
ConcatChunks(n) ==
  IF n = 0 THEN <<>> ELSE ConcatChunks(n - 1) \o fs[chunks[n]].data

\* everything written to the chunk files of this run, in creation order
Written == ConcatChunks(Len(chunks))

\* names a file left behind in the output directory may have
PreNames(use_utc) == {get_timestamped_filename(0, use_utc)}

\* ------------------------------------------------------------------- Init
\* state of main() on entering the try block of line 64
InitRecorder ==
  /\ args \in [duration : DurationSet, total_duration : TotalSet, use_utc : BOOLEAN]
  /\ now = 0
  /\ streamOpen = FALSE
  /\ delivered = FALSE
  /\ continuous = TRUE
  /\ pushed = 0
  /\ q = <<>>
  /\ pc = "open_stream"
  /\ start_time = 0
  /\ elapsed_time = 0
  /\ chunk_start_time = 0
  /\ filename = NoFile
  /\ item = NoItem
  /\ file = NoFile
  /\ \E pre \in SUBSET PreNames(args.use_utc) :
        fs = [p \in pre |-> [pre |-> TRUE, data |-> PreData]]
  /\ chunks = <<>>
  /\ exc = "none"
  /\ cause = "none"
  /\ signal = NoSignal
  /\ handles = {}
  /\ report = {}
  /\ exitStatus = Running
  /\ stderr = {}
  /\ skew = 0
  /\ mono_start = 0
  /\ mono_chunk_start = 0
  /\ first_test = "none"
  /\ late_writes = 0

FmtIdle == DateTimeNow(0, TzNone)

Init ==
  /\ InitRecorder
  /\ fmt_dt = FmtIdle
  /\ fmt_out = <<>>

\* groups of variables an action leaves alone
fmtVars == <<fmt_dt, fmt_out>>
clockVars == <<now, delivered, continuous>>
timeVars == <<start_time, elapsed_time, chunk_start_time>>
fileVars == <<file, handles, fs, chunks>>
endVars == <<exc, cause, signal, report, exitStatus>>
envVars == <<stderr>>
histVars == <<mono_start, mono_chunk_start, first_test, late_writes>>

\* ------------------------------------------------------------ environment
\* time.time() and datetime.now(): the system clock, adjustments included
Time == now + skew

\* positions at which the main thread is about to read the clock (86, 87, 90)
\* or is blocked in q.get() (88): a tick elsewhere gives the same readings
ClockObserved == {"chunk_start", "chunk_check", "elapsed", "get"}

\* the clock advances by one tick
Tick ==
  /\ now < MaxTime
  /\ pc \in ClockObserved
  /\ now' = now + 1
  /\ delivered' = FALSE
  /\ continuous' = (continuous /\ (streamOpen => delivered))
  /\ UNCHANGED <<args, fmtVars, envVars, skew, histVars, streamOpen, pushed, q, pc, timeVars, filename,
                 item, fileVars, endVars>>

\* variant: a queue of capacity 2 filled with put_nowait, a full queue drops
Put_DropWhenFull(queue, buf) ==
  IF Len(queue) >= 2 THEN queue ELSE Append(queue, buf)

\* q.put(indata.copy()) (35): the queue is unbounded, put never blocks
Put(queue, buf) == Append(queue, buf)

\* if status: print(status, file=sys.stderr) (33-34)
Printed(err, status) == IF status THEN err \cup {"status"} ELSE err

\* variant: a callback that reports a status returns without enqueuing
Enqueued_UnlessStatus(status, queue, buf) ==
  IF status THEN queue ELSE Put(queue, buf)

\* line 35 runs whether or not a status was reported
Enqueued(status, queue, buf) == Put(queue, buf)

\* audio_callback (32-35), called by the Audio Source while the stream is open
audio_callback ==
  /\ streamOpen
  /\ ~delivered
  /\ delivered' = TRUE
  /\ pushed' = pushed + 1
  /\ \E status \in BOOLEAN :
        /\ stderr' = Printed(stderr, status)
        /\ q' = Enqueued(status, q, pushed + 1)
  /\ UNCHANGED <<args, fmtVars, skew, histVars, now, continuous, streamOpen, pc, timeVars,
                 filename, item, fileVars, endVars>>

\* ------------------------------------------------------- main thread (64-96)
\* with sd.InputStream(...) (65-66): the stream opens and starts
OpenStreamOk ==
  /\ pc = "open_stream"
  /\ streamOpen' = TRUE
  /\ pc' = "begin"
  /\ UNCHANGED <<args, fmtVars, envVars, skew, histVars, clockVars, pushed, q, timeVars, filename,
                 item, fileVars, endVars>>

\* variant: the failure is caught around the stream and the loop is entered
AfterStreamError_EnterLoop == "begin"

\* where control goes when sd.InputStream(...) raises: to the handlers
AfterStreamError == "except"

\* sd.InputStream(...) raises PortAudioError (invalid device, bad settings)
OpenStreamFail ==
  /\ pc = "open_stream"
  /\ exc' = "Exception"
  /\ cause' = "device"
  /\ pc' = AfterStreamError
  /\ UNCHANGED <<args, fmtVars, envVars, skew, histVars, clockVars, pushed, q, streamOpen, timeVars,
                 filename, item, fileVars, signal, report, exitStatus>>

\* start_time = time.time(); elapsed_time = 0 (71-72)
Begin ==
  /\ pc = "begin"
  /\ start_time' = Time
  /\ mono_start' = now
  /\ elapsed_time' = 0
  /\ pc' = "loop_head"
  /\ UNCHANGED <<args, fmtVars, envVars, skew, mono_chunk_start, first_test,
                 late_writes, clockVars, pushed, q, streamOpen,
                 chunk_start_time, filename, item, fileVars, endVars>>

\* the messages of lines 77, 93 and 95
DurationMessage == "Total recording duration reached. Exiting."
InterruptMessage == "Recording interrupted by user. Exiting."
ErrorMessage == "An unexpected error occurred"

\* Python truth value of args.total_duration: None and 0.0 are false
Truthy(total) == total.given /\ total.value # 0

\* variant: elapsed time counted from the start of the last chunk
StopCondition_SinceChunkStart ==
  Truthy(args.total_duration)
    /\ Time - chunk_start_time >= args.total_duration.value

\* the test of line 76
StopCondition ==
  Truthy(args.total_duration) /\ elapsed_time >= args.total_duration.value

\* if args.total_duration and elapsed_time >= args.total_duration: break (76-78)
LoopHead ==
  /\ pc = "loop_head"
  /\ IF StopCondition
       THEN /\ pc' = "stream_exit"
            /\ cause' = "duration"
            /\ report' = report \cup {DurationMessage}
       ELSE /\ pc' = "mkname"
            /\ UNCHANGED <<cause, report>>
  /\ UNCHANGED <<args, fmtVars, envVars, skew, histVars, clockVars, pushed, q, streamOpen, timeVars,
                 filename, item, fileVars, exc, signal, exitStatus>>

\* filename = get_timestamped_filename(...) (81)
MakeName ==
  /\ pc = "mkname"
  /\ filename' = get_timestamped_filename(Time, args.use_utc)
  /\ pc' = "open"
  /\ UNCHANGED <<args, fmtVars, envVars, skew, histVars, clockVars, pushed, q, streamOpen, timeVars,
                 item, fileVars, endVars>>

\* sf.SoundFile(filename, mode='x', ...) (84-85): strict create
OpenFile ==
  /\ pc = "open"
  /\ IF Exists(filename)
       THEN /\ exc' = "Exception"
            /\ cause' = "collision"
            /\ pc' = "stream_exit"
            /\ UNCHANGED fileVars
       ELSE /\ fs' = Created(filename)
            /\ file' = filename
            /\ handles' = handles \cup {filename}
            /\ chunks' = Append(chunks, filename)
            /\ pc' = "chunk_start"
            /\ UNCHANGED <<exc, cause>>
  /\ UNCHANGED <<args, fmtVars, envVars, skew, histVars, clockVars, pushed, q, streamOpen, timeVars,
                 filename, item, signal, report, exitStatus>>

\* sf.SoundFile(...) raises for another reason (permission denied, disk full)
OpenFileIoError ==
  /\ pc = "open"
  /\ ~Exists(filename)
  /\ exc' = "Exception"
  /\ cause' = "io"
  /\ pc' = "stream_exit"
  /\ UNCHANGED <<args, fmtVars, envVars, skew, histVars, clockVars, pushed, q, streamOpen, timeVars,
                 filename, item, fileVars, signal, report, exitStatus>>

\* chunk_start_time = time.time() (86)
ChunkStart ==
  /\ pc = "chunk_start"
  /\ chunk_start_time' = Time
  /\ mono_chunk_start' = now
  /\ first_test' = "none"
  /\ late_writes' = 0
  /\ pc' = "chunk_check"
  /\ UNCHANGED <<args, fmtVars, envVars, skew, mono_start, clockVars, pushed, q, streamOpen, start_time,
                 elapsed_time, filename, item, fileVars, endVars>>

\* variant: the chunk deadline is counted from the start of the session
ChunkRunning_FromSessionStart == Time - start_time < args.duration

\* the deadline of the open chunk, chunk_start_time + duration, has been reached
PastDeadline == Time >= chunk_start_time + args.duration

\* variant: the test of line 87 written with <=
ChunkRunning_Inclusive == Time - chunk_start_time <= args.duration

\* the test of line 87
ChunkRunning == Time - chunk_start_time < args.duration

\* what the first test of line 87 found: deadline still ahead or passed
FirstTest(seen, running) ==
  IF seen # "none" THEN seen ELSE IF running THEN "early" ELSE "late"

\* while time.time() - chunk_start_time < args.duration (87)
ChunkCheck ==
  /\ pc = "chunk_check"
  /\ pc' = IF ChunkRunning THEN "get" ELSE "file_exit"
  /\ first_test' = FirstTest(first_test, ChunkRunning)
  /\ UNCHANGED <<args, fmtVars, envVars, skew, mono_start, mono_chunk_start,
                 late_writes, clockVars, pushed, q, streamOpen, timeVars,
                 filename, item, fileVars, endVars>>

\* q.get() (88): blocks while the queue is empty, returns the oldest buffer
\* variant: a LIFO queue hands out the newest buffer
Get_Newest(queue) == queue[Len(queue)]

Get(queue) == Head(queue)
Rest(queue) == Tail(queue)

QGet ==
  /\ pc = "get"
  /\ q # <<>>
  /\ item' = <<Get(q)>>
  /\ q' = Rest(q)
  /\ pc' = "write"
  /\ UNCHANGED <<args, fmtVars, envVars, skew, histVars, clockVars, pushed, streamOpen, timeVars,
                 filename, fileVars, endVars>>

\* file.write(...) (88) of the buffer just dequeued
FileWrite ==
  /\ pc = "write"
  /\ fs' = Appended(file, item[1])
  /\ item' = NoItem
  /\ late_writes' = late_writes + (IF PastDeadline THEN 1 ELSE 0)
  /\ pc' = "chunk_check"
  /\ UNCHANGED <<args, fmtVars, envVars, skew, mono_start, mono_chunk_start,
                 first_test, clockVars, pushed, q, streamOpen, timeVars,
                 filename, file, handles, chunks, endVars>>

\* file.write(...) raises (disk full, device removed): nothing is appended
FileWriteIoError ==
  /\ pc = "write"
  /\ item' = NoItem
  /\ exc' = "Exception"
  /\ cause' = "io"
  /\ pc' = "file_exit"
  /\ UNCHANGED <<args, fmtVars, envVars, skew, histVars, clockVars, pushed, q, streamOpen, timeVars,
                 filename, fileVars, signal, report, exitStatus>>

\* where control goes after SoundFile.__exit__
AfterFileExit(e) == IF e = "none" THEN "elapsed" ELSE "stream_exit"

\* variant: __exit__ does not release the handle
Closed_Leaked(hs, f) == hs

\* SoundFile.close(): the handle of path f is released
Closed(hs, f) == hs \ {f}

\* SoundFile.__exit__ (end of the with block of 84-88): close the file
FileExit ==
  /\ pc = "file_exit"
  /\ handles' = Closed(handles, file)
  /\ file' = NoFile
  /\ first_test' = "none"
  /\ late_writes' = 0
  /\ pc' = AfterFileExit(exc)
  /\ UNCHANGED <<args, fmtVars, envVars, skew, mono_start, mono_chunk_start,
                 clockVars, pushed, q, streamOpen, timeVars,
                 filename, item, fs, chunks, endVars>>

\* elapsed_time = time.time() - start_time (90)
Elapsed ==
  /\ pc = "elapsed"
  /\ elapsed_time' = Time - start_time
  /\ pc' = "loop_head"
  /\ UNCHANGED <<args, fmtVars, envVars, skew, histVars, clockVars, pushed, q, streamOpen, start_time,
                 chunk_start_time, filename, item, fileVars, endVars>>

\* variant: the stream is closed when the loop is left, but the loop goes on
AfterStreamExit_KeepLooping(e) == IF e = "none" THEN "mkname" ELSE "except"

\* where control goes after InputStream.__exit__: out of the try body
AfterStreamExit(e) == "except"

\* InputStream.__exit__ (end of the with block of 65-90): stop and close
StreamExit ==
  /\ pc = "stream_exit"
  /\ streamOpen' = FALSE
  /\ pc' = AfterStreamExit(exc)
  /\ UNCHANGED <<args, fmtVars, envVars, skew, histVars, clockVars, pushed, q, timeVars, filename,
                 item, fileVars, endVars>>

\* variant: the handler of 94-96 lacks sys.exit(1)
StatusFor_AlwaysZero(e) == 0

\* exit status chosen by the handlers of 92-96 (0 when main() just returns)
StatusFor(e) == IF e = "Exception" THEN 1 ELSE 0

\* what the handlers of 92-96 print
MessageFor(e) ==
  IF e = "KeyboardInterrupt" THEN {InterruptMessage}
  ELSE IF e = "Exception" THEN {ErrorMessage}
  ELSE {}

\* except KeyboardInterrupt / except Exception / normal return (92-96)
Finish ==
  /\ pc = "except"
  /\ exitStatus' = <<StatusFor(exc)>>
  /\ report' = report \cup MessageFor(exc)
  /\ pc' = "done"
  /\ UNCHANGED <<args, fmtVars, envVars, skew, histVars, clockVars, pushed, q, streamOpen, timeVars,
                 filename, item, fileVars, exc, cause, signal>>

\* positions inside the with blocks at which Ctrl+C raises KeyboardInterrupt
Interruptible == {"begin", "loop_head", "mkname", "open", "chunk_start",
                  "chunk_check", "get", "write", "elapsed", "file_exit",
                  "stream_exit"}

\* variant: the chunk file is not managed by a with block
UnwindFrom_SkipFile(p, f) == IF p = "file_exit" THEN p ELSE "stream_exit"

\* where a KeyboardInterrupt raised at position p starts unwinding: at the
\* innermost with block that is open
UnwindFrom(p, f) ==
  IF p \in {"file_exit", "stream_exit"} THEN p
  ELSE IF f # NoFile THEN "file_exit" ELSE "stream_exit"

\* KeyboardInterrupt in the main thread: the with blocks unwind (84, 65),
\* then the handler of 92-93 runs; a buffer held between get and write is lost
Interrupt ==
  /\ pc \in Interruptible
  /\ exc = "none"
  /\ ~signal.raised
  /\ signal' = [raised |-> TRUE, pushed |-> pushed, mid_chunk |-> file # NoFile]
  /\ exc' = "KeyboardInterrupt"
  /\ cause' = "cancel"
  /\ item' = NoItem
  /\ pc' = UnwindFrom(pc, file)
  /\ UNCHANGED <<args, fmtVars, envVars, skew, histVars, clockVars, pushed, q, streamOpen, timeVars,
                 filename, fileVars, report, exitStatus>>

Next ==
  \/ Tick
  \/ audio_callback
  \/ OpenStreamOk
  \/ OpenStreamFail
  \/ Begin
  \/ LoopHead
  \/ MakeName
  \/ OpenFile
  \/ OpenFileIoError
  \/ ChunkStart
  \/ ChunkCheck
  \/ QGet
  \/ FileWrite
  \/ FileWriteIoError
  \/ FileExit
  \/ Elapsed
  \/ StreamExit
  \/ Finish
  \/ Interrupt

Spec == Init /\ [][Next]_vars

\* ------------------------------------ a run with a producer that keeps up
\* The Audio Source delivers a buffer in every period, nothing fails and
\* nobody cancels; the main thread is fast against the period, so the clock
\* is seen to advance only while it is blocked in q.get() on an empty queue.
TickBlocked ==
  /\ pc = "get"
  /\ q = <<>>
  /\ delivered
  /\ Tick

\* the statements of the main thread that raise nothing
MainThread ==
  \/ OpenStreamOk
  \/ Begin
  \/ LoopHead
  \/ MakeName
  \/ OpenFile
  \/ ChunkStart
  \/ ChunkCheck
  \/ QGet
  \/ FileWrite
  \/ FileExit
  \/ Elapsed
  \/ StreamExit
  \/ Finish

NextLive == TickBlocked \/ audio_callback \/ MainThread

\* the interpreter keeps running the main thread, the device keeps calling
\* back, time keeps passing
SpecLive ==
  /\ Init
  /\ [][NextLive]_vars
  /\ WF_vars(MainThread)
  /\ WF_vars(audio_callback)
  /\ WF_vars(TickBlocked)

\* ------------------------------------------- a system clock that is stepped
\* one recording of positive chunk and total duration into an empty directory
InitClock ==
  /\ Init
  /\ args.duration > 0
  /\ Truthy(args.total_duration)
  /\ ~args.use_utc
  /\ DOMAIN fs = {}

\* the system clock is set back or forward by one tick (NTP step, operator):
\* time.time() (71, 86, 87, 90) and datetime.now() (26) follow it
ClockStep ==
  /\ pc \in ClockObserved
  /\ skew = 0
  /\ \E d \in {-1, 1} :
        /\ now + d >= 0
        /\ skew' = d
  /\ UNCHANGED <<args, fmtVars, envVars, histVars, clockVars, streamOpen,
                 pushed, q, pc, timeVars, filename, item, fileVars, endVars>>

NextClock == Next \/ ClockStep

SpecClock == InitClock /\ [][NextClock]_vars

\* --------------------------------------------- dt_to_str as a pure function
DateTimes ==
  [year : {2024}, month : {1, 12}, day : {9}, hour : {0, 23}, minute : {5},
   second : {0, 59}, microsecond : {0, 1, 500000, 999999},
   tzinfo : {TzNone, TzUTC, TzFixed(0), TzFixed(3600)}]

InitFmt ==
  /\ InitRecorder
  /\ fmt_dt \in DateTimes
  /\ fmt_out = <<>>

\* dt_str = dt_to_str(dt)
FmtApply ==
  /\ fmt_out = <<>>
  /\ fmt_out' = dt_to_str(fmt_dt)
  /\ UNCHANGED <<args, envVars, skew, histVars, fmt_dt, clockVars, pushed, q, streamOpen, pc, timeVars,
                 filename, item, fileVars, endVars>>

\* the next input
FmtPick ==
  /\ fmt_out # <<>>
  /\ fmt_dt' \in DateTimes
  /\ fmt_out' = <<>>
  /\ UNCHANGED <<args, envVars, skew, histVars, clockVars, pushed, q, streamOpen, pc, timeVars,
                 filename, item, fileVars, endVars>>

NextFmt == FmtApply \/ FmtPick

SpecFmt == InitFmt /\ [][NextFmt]_vars

TypeOK ==
  /\ now \in 0..MaxTime
  /\ pushed \in 0..(MaxTime + 1)
  /\ exitStatus \in {Running, <<0>>, <<1>>}
  /\ exc \in {"none", "KeyboardInterrupt", "Exception"}
  /\ handles \subseteq DOMAIN fs
  /\ skew \in {-1, 0, 1}
  /\ first_test \in {"none", "early", "late"}
  /\ late_writes \in 0..1
  /\ stderr \subseteq {"status"}

\* ================================================================= claims
ErrorCauses == {"device", "collision", "io"}

\* C1: the buffers written to the chunk files, concatenated in chunk creation
\* order, are always a prefix of the enqueue sequence 1, 2, 3, ...: nothing is
\* reordered, duplicated or skipped.
C1_FifoPrefix ==
  /\ Len(Written) <= pushed
  /\ \A i \in 1..Len(Written) : Written[i] = i

C1_Witness ==
  /\ Len(chunks) >= 2
  /\ Len(fs[chunks[1]].data) >= 1
  /\ Len(fs[chunks[2]].data) >= 1
  /\ q # <<>>

\* C2 (as claimed): when the run has ended because the total duration was
\* reached, every buffer pushed by audio_callback has been written.
C2_NoLossAtDuration ==
  (pc = "done" /\ cause = "duration") => Len(Written) = pushed

ShortTotal ==
  Truthy(args.total_duration) /\ args.total_duration.value < args.duration

\* C3 (as claimed): with a total duration below the chunk duration and a
\* continuous stream, exactly one chunk file is produced and the consumer goes
\* for no further buffer once elapsed time has reached total_duration.
C3_TruncatedAtTotal ==
  /\ []((ShortTotal /\ continuous /\ pc = "done" /\ cause = "duration")
          => Len(chunks) = 1)
  /\ [][(ShortTotal /\ continuous /\ pc = "chunk_check" /\ pc' = "get")
          => now - start_time < args.total_duration.value]_vars

Ceil(a, b) == (a + b - 1) \div b

\* duration of the last chunk as the loop measures it: from line 86 to line 90
LastChunkSpan == (start_time + elapsed_time) - chunk_start_time

\* C4 (as claimed): a run over a continuous stream stopped by the total
\* duration T has produced exactly ceil(T/D) chunk files, the last one shorter
\* than D when D does not divide T; without a total duration the run is never
\* stopped by the duration test.
C4_RolloverCount ==
  /\ (pc = "done" /\ cause = "duration" /\ continuous /\ args.duration > 0) =>
       /\ Len(chunks) = Ceil(args.total_duration.value, args.duration)
       /\ (args.total_duration.value % args.duration # 0
             => LastChunkSpan < args.duration)
  /\ ~args.total_duration.given => cause # "duration"

\* C5: opening a chunk path that already exists fails: the directory is left
\* as it was, no handle is opened, the error propagates, the run goes on to no
\* further chunk and exits with status 1 after reporting; a file that was there
\* before the run keeps its contents.
C5_StrictCreate ==
  /\ [][(pc = "open" /\ filename \in DOMAIN fs /\ pc' # "open"
           /\ exc' # "KeyboardInterrupt")
          => (fs' = fs /\ handles' = handles /\ chunks' = chunks
                /\ exc' = "Exception" /\ pc' = "stream_exit")]_vars
  /\ [](cause = "collision" => pc \in {"stream_exit", "except", "done"})
  /\ []((pc = "done" /\ cause = "collision")
          => (exitStatus = <<1>> /\ ErrorMessage \in report))
  /\ [](\A p \in DOMAIN fs : fs[p].pre => fs[p].data = PreData)

C5_Witness ==
  /\ pc = "done"
  /\ cause = "collision"
  /\ Len(chunks) >= 1
  /\ exitStatus = <<1>>

\* C6 (as claimed): after a KeyboardInterrupt raised while a chunk file was
\* open, the run ends with the file closed and status 0, and the chunk files
\* hold every buffer enqueued before the signal.
C6_GracefulCancel ==
  (pc = "done" /\ signal.raised /\ signal.mid_chunk) =>
     /\ handles = {}
     /\ exitStatus = <<0>>
     /\ Len(Written) >= signal.pushed

\* C7: once the try body has been left (handlers running or process ended),
\* no chunk file handle is open, whatever ended the run.
C7_NoOpenHandleAtExit ==
  pc \in {"except", "done"} => handles = {}

C7_Witness ==
  /\ pc = "done"
  /\ signal.mid_chunk
  /\ Len(Written) >= 1

\* C8: the exit status and the message follow the cause: total duration
\* reached and cancellation exit with 0, an error (device, collision, I/O)
\* exits with 1 after the error message, and no run ends without a cause.
C8_ExitByCause ==
  pc = "done" =>
     /\ cause \in {"duration", "cancel"} \cup ErrorCauses
     /\ cause = "duration" =>
          (exitStatus = <<0>> /\ report = {DurationMessage})
     /\ cause = "cancel" =>
          (exitStatus = <<0>> /\ InterruptMessage \in report
             /\ ErrorMessage \notin report)
     /\ cause \in ErrorCauses =>
          (exitStatus = <<1>> /\ report = {ErrorMessage})

C8_Witness ==
  /\ pc = "done"
  /\ cause = "io"
  /\ Len(chunks) >= 1
  /\ exitStatus = <<1>>

\* C9: the stream is closed only when the main thread has left the consumer
\* loop, and a buffer is taken from the queue only while the stream is open.
C9_TeardownAfterConsumer ==
  /\ [](~streamOpen => pc \in {"open_stream", "except", "done"})
  /\ [][Len(q') < Len(q) => (streamOpen /\ streamOpen')]_vars

C9_Witness ==
  /\ pc = "done"
  /\ ~streamOpen
  /\ cause = "duration"
  /\ Len(Written) >= 1
  /\ q # <<>>

\* reading a formatted timestamp back
EndsWithZ(str) == Len(str) > 0 /\ str[Len(str)] = "Z"
IsDigit(c) == \E d \in 0..9 : Digits[d + 1] = c
DigitValue(c) == CHOOSE d \in 0..9 : Digits[d + 1] = c
HasFractionField(str) ==
  /\ Len(str) >= 26
  /\ str[20] = "."
  /\ \A i \in 21..26 : IsDigit(str[i])

RECURSIVE FieldValue(_, _, _)
FieldValue(str, from, to) ==
  IF to < from THEN 0
  ELSE 10 * FieldValue(str, from, to - 1) + DigitValue(str[to])

\* C10 (as claimed): 'Z' is appended only to an instant tagged UTC, and the
\* six-digit fraction is present exactly when the microsecond is non-zero.
C10_ZOnlyForUTC ==
  fmt_out # <<>> =>
     /\ EndsWithZ(fmt_out) => fmt_dt.tzinfo.utc
     /\ HasFractionField(fmt_out) <=> fmt_dt.microsecond # 0

\* C10 (amended): 'Z' is appended exactly when the instant is timezone-aware
\* with a zero UTC offset, so never to a naive instant; the fraction, six
\* zero-padded digits spelling the microsecond, is present exactly when the
\* microsecond is non-zero.
C10_ZForAwareZeroOffset ==
  fmt_out # <<>> =>
     /\ EndsWithZ(fmt_out) <=>
          (fmt_dt.tzinfo.aware /\ fmt_dt.tzinfo.offset = 0)
     /\ HasFractionField(fmt_out) <=> fmt_dt.microsecond # 0
     /\ HasFractionField(fmt_out) =>
          FieldValue(fmt_out, 21, 26) = fmt_dt.microsecond
     /\ Len(fmt_out) = 19 + (IF fmt_dt.microsecond # 0 THEN 7 ELSE 0)
                          + (IF EndsWithZ(fmt_out) THEN 1 ELSE 0)

C10_Witness ==
  /\ fmt_out # <<>>
  /\ fmt_dt.tzinfo = TzFixed(0)
  /\ fmt_dt.microsecond = 1
  /\ EndsWithZ(fmt_out)
  /\ HasFractionField(fmt_out)

\* positions of the consumer loop of lines 74-90
Streaming == {"loop_head", "mkname", "open", "chunk_start", "chunk_check",
              "get", "write", "file_exit", "elapsed"}

\* C11 (as claimed): whenever a total duration is given, 0 included, and
\* elapsed_time has reached it at the loop head, the loop is left; and no chunk
\* file is created while elapsed_time >= total_duration.
C11_StopAtLoopHead ==
  /\ [][(pc = "loop_head" /\ args.total_duration.given
           /\ elapsed_time >= args.total_duration.value
           /\ pc' # "loop_head" /\ exc' # "KeyboardInterrupt")
          => pc' = "stream_exit"]_vars
  /\ [][(chunks' # chunks /\ args.total_duration.given)
          => elapsed_time < args.total_duration.value]_vars

\* C12 (as claimed): while the consumer loop runs, exactly one chunk file
\* handle is open.
C12_ExactlyOneHandle ==
  (streamOpen /\ pc \in Streaming) => Cardinality(handles) = 1

\* C12 (amended): at most one chunk file handle is open at any time; it is
\* the handle of the current chunk from its creation to its close, and none
\* is open while the loop tests the stop condition, computes the next
\* filename and creates the next file.
C12_AtMostOneHandle ==
  /\ Cardinality(handles) <= 1
  /\ pc \in {"chunk_start", "chunk_check", "get", "write", "file_exit"}
       => (file # NoFile /\ handles = {file})
  /\ pc \in {"loop_head", "mkname", "open", "elapsed"} => handles = {}

C12_Witness ==
  /\ Len(chunks) = 2
  /\ pc = "write"
  /\ handles = {chunks[2]}

\* C13 (as claimed): whenever the main thread holds no buffer between get and
\* write, every buffer delivered is either in a chunk file or still in the
\* queue, on the cancellation and error paths too.
C13_Conservation ==
  item = NoItem => pushed = Len(Written) + Len(q)

\* C14: while the stream is open the callback of the current period can
\* always run, whatever the queue length and the position of the main thread,
\* and every callback appends its buffer to the queue, which loses nothing.
C14_PushNeverBlocks ==
  /\ [](streamOpen /\ ~delivered => ENABLED audio_callback)
  /\ [][pushed' # pushed =>
          (pushed' = pushed + 1 /\ q' = Append(q, pushed') /\ pc' = pc)]_vars

C14_Witness ==
  /\ streamOpen
  /\ Len(q) >= 3
  /\ pc = "write"

\* C15: a chunk closed by normal rollover (the loop goes on to line 90) was
\* open for at least chunk_duration, counted from line 86 on the clock the
\* loop reads; only a chunk closed by an exception may be shorter.
C15_NoShortChunk ==
  [][(pc = "file_exit" /\ pc' = "elapsed")
       => now - chunk_start_time >= args.duration]_vars

C15_Witness ==
  /\ Len(chunks) >= 2
  /\ pc = "elapsed"
  /\ args.duration > 0
  /\ Len(fs[chunks[2]].data) >= 1

\* C18: when opening the input stream fails, the run ends with status 1 and
\* the error message, no chunk file was created or opened, no buffer was
\* delivered and the consumer loop was never entered.
C18_ConfigErrorBeforeOutput ==
  cause = "device" =>
     /\ pc \in {"except", "done"}
     /\ chunks = <<>>
     /\ handles = {}
     /\ \A p \in DOMAIN fs : fs[p].pre
     /\ pushed = 0
     /\ ~streamOpen
     /\ pc = "done" => (exitStatus = <<1>> /\ report = {ErrorMessage})

C18_Witness ==
  /\ pc = "done"
  /\ cause = "device"
  /\ exitStatus = <<1>>

\* C16: a callback that reports a device status still enqueues its buffer and
\* changes nothing of the main thread: same position, no exception, stream
\* open, files and clock readings untouched.
C16_StatusDoesNotHalt ==
  [][(stderr' # stderr \/ pushed' # pushed) =>
       /\ pushed' = pushed + 1
       /\ q' = Append(q, pushed + 1)
       /\ streamOpen /\ streamOpen'
       /\ pc' = pc
       /\ UNCHANGED <<exc, cause, exitStatus, item, filename, timeVars,
                      fileVars>>]_vars

C16_Witness ==
  /\ "status" \in stderr
  /\ pc = "write"
  /\ Len(chunks) = 2
  /\ exc = "none"

\* C17 (as claimed): the chunk and total duration tests follow real elapsed
\* time even when the system clock is stepped: a chunk is rolled over exactly
\* once chunk_duration of real time has passed since line 86, and the loop is
\* left exactly once total_duration of real time has passed since line 71.
C17_MonotonicChecks ==
  /\ [][(pc = "chunk_check" /\ pc' = "file_exit" /\ exc' = "none")
          => now - mono_chunk_start >= args.duration]_vars
  /\ [][(pc = "chunk_check" /\ pc' = "get")
          => now - mono_chunk_start < args.duration]_vars
  /\ [][(pc = "loop_head" /\ pc' = "stream_exit" /\ exc' = "none")
          => now - mono_start >= args.total_duration.value]_vars
  /\ [][(pc = "loop_head" /\ pc' = "mkname" /\ Truthy(args.total_duration))
          => now - mono_start < args.total_duration.value]_vars

\* C20 (as claimed): at most one buffer is written to a chunk at or after its
\* deadline, and with a positive chunk duration a chunk closed by normal
\* rollover holds at least one buffer.
C20_BoundedOvershoot ==
  /\ late_writes <= 1
  /\ (pc = "file_exit" /\ exc = "none" /\ args.duration > 0)
       => fs[file].data # <<>>

\* C20 (amended): at most one buffer is written to a chunk at or after its
\* deadline; with a positive chunk duration a chunk closed by normal rollover
\* holds at least one buffer when the first test of line 87 was made before
\* the deadline, and is empty when that first test already found it passed.
C20_OvershootAndFirstTest ==
  /\ late_writes <= 1
  /\ (pc = "file_exit" /\ exc = "none" /\ args.duration > 0) =>
       /\ first_test = "early" => fs[file].data # <<>>
       /\ first_test = "late" => fs[file].data = <<>>
       /\ first_test # "none"

C20_Witness ==
  /\ pc = "file_exit"
  /\ exc = "none"
  /\ args.duration > 0
  /\ late_writes = 1
  /\ Len(fs[file].data) >= 2

\* C19: with a positive total duration, a producer that keeps delivering and
\* no error or cancellation, the run ends: the stream is closed, no chunk is
\* open, and a run that recorded something stopped on the duration test with
\* status 0; and while the main thread is blocked in q.get() on an empty queue
\* it stays there, testing no deadline, until a buffer arrives.
C19_TerminatesWithFairProducer ==
  /\ (pc = "open_stream" /\ args.total_duration.given
        /\ args.total_duration.value > 0)
       ~> (pc = "done" /\ handles = {} /\ ~streamOpen)
  /\ []((pc = "done" /\ args.duration > 0 /\ chunks # <<>>)
          => (cause = "duration" /\ exitStatus = <<0>>))
  /\ [][(pc = "get" /\ q = <<>>) => (pc' = "get" /\ UNCHANGED timeVars)]_vars

C19_Witness ==
  /\ pc = "done"
  /\ cause = "duration"
  /\ Len(chunks) = 2
  /\ Len(fs[chunks[2]].data) >= 1

====
